---------------------------- MODULE Spec2Model ----------------------------
(***************************************************************************)
(* Model of the Spiritual Guru Chat API (src/main.py): the rules-based     *)
(* reply synthesizer generate_guru_reply, the persona listing list_gurus   *)
(* with its seed-on-empty step, and the exchange handler ask_guru with its *)
(* best-effort persistence.  The document store (module database, not part *)
(* of src/) is modelled as three append-only collections whose operations  *)
(* either succeed or raise.                                                *)
(***************************************************************************)
EXTENDS Integers, Sequences, FiniteSets, TLC

VARIABLES
    synth,         \* generate_guru_reply: inputs, locals and result of one call
    guru,          \* store collection "guru": sequence of persona documents
    conversation,  \* store collection "conversation"
    message,       \* store collection "message"
    nextId,        \* the store's id generator
    lg,            \* list_gurus: per worker, position and locals of its call
    returned,      \* list_gurus: results of the completed calls, in order
    ask,           \* ask_guru: the last call (payload, store outcomes, response)
    hist           \* history: what the store did so far

vars == <<synth, guru, conversation, message, nextId, lg, returned, ask, hist>>

(***************************************************************************)
(* Bounds                                                                  *)
(***************************************************************************)
MaxFrags == 2      \* a user message is built from at most this many fragments
MaxListCalls == 3  \* list_gurus calls per behaviour
MaxAskCalls == 2   \* ask_guru calls per behaviour
NumWorkers == 2    \* worker threads serving list_gurus

(***************************************************************************)
(* Strings: Python's str.strip, str.lower and the `in` substring test      *)
(***************************************************************************)
Whitespace == {" ", "\t", "\n"}

\* str.lower on the letters A-Z; every other character is left as it is
LowerOf ==
    [A |-> "a", B |-> "b", C |-> "c", D |-> "d", E |-> "e", F |-> "f", G |-> "g",
     H |-> "h", I |-> "i", J |-> "j", K |-> "k", L |-> "l", M |-> "m", N |-> "n",
     O |-> "o", P |-> "p", Q |-> "q", R |-> "r", S |-> "s", T |-> "t", U |-> "u",
     V |-> "v", W |-> "w", X |-> "x", Y |-> "y", Z |-> "z"]

CharAt(s, i) == SubSeq(s, i, i)

LowerChar(c) == IF c \in DOMAIN LowerOf THEN LowerOf[c] ELSE c

RECURSIVE lower(_)
lower(s) ==
    IF Len(s) = 0 THEN ""
    ELSE LowerChar(CharAt(s, 1)) \o lower(SubSeq(s, 2, Len(s)))

RECURSIVE lstrip(_)
lstrip(s) ==
    IF Len(s) > 0 /\ CharAt(s, 1) \in Whitespace
    THEN lstrip(SubSeq(s, 2, Len(s)))
    ELSE s

RECURSIVE rstrip(_)
rstrip(s) ==
    IF Len(s) > 0 /\ CharAt(s, Len(s)) \in Whitespace
    THEN rstrip(SubSeq(s, 1, Len(s) - 1))
    ELSE s

strip(s) == rstrip(lstrip(s))

\* w in s
Contains(w, s) ==
    \E i \in 1..(Len(s) - Len(w) + 1) : SubSeq(s, i, i + Len(w) - 1) = w

\* any(w in s for w in ws)
AnyIn(ws, s) == \E k \in 1..Len(ws) : Contains(ws[k], s)

(***************************************************************************)
(* generate_guru_reply                                                     *)
(***************************************************************************)
KnownArchetypes == {"zen", "yogi", "astrologer", "monk", "sufi"}

preface_get(a) ==
    CASE a = "zen" -> "Zen Reflection:"
      [] a = "yogi" -> "Yogic Guidance:"
      [] a = "astrologer" -> "Astrological Insight:"
      [] a = "monk" -> "Monastic Wisdom:"
      [] a = "sufi" -> "Sufi Whisper:"
      [] OTHER -> "Guidance:"

\* the zen suffix has an em dash in the source; "--" stands for it here
tailoring_get(a) ==
    CASE a = "zen" -> " Embrace simplicity--wash the bowl, one mindful action at a time."
      [] a = "yogi" -> " Align breath and intention; the posture of your day shapes the posture of your mind."
      [] a = "astrologer" -> " Trust timing; not every seed sprouts in the same season."
      [] a = "monk" -> " Choose quiet courage. Consistency is a humble miracle."
      [] a = "sufi" -> " Let love polish the heart; dance gently with what is."
      [] OTHER -> ""

StressWords == <<"stress", "anxious", "anxiety", "overwhelmed">>
PurposeWords == <<"purpose", "meaning", "direction">>
RelationshipWords == <<"love", "relationship", "breakup", "heart">>
CareerWords == <<"career", "job", "work">>

SilenceCore == "Silence can be a teacher. Breathe, observe, and allow the next question to arise naturally."
StressCore == "Place a hand on your heart. Inhale for 4, hold for 4, exhale for 6. Notice one thing you can see, hear, and feel. Your mind will follow your breath."
PurposeCore == "Purpose unfolds in small, honest steps. Name one value you refuse to abandon; take one action today that honors it."
RelationshipCore == "Love matures through presence and boundaries. Speak your needs with kindness; listen without preparing your defense."
CareerCore == "Treat your work as a dojo: show up, practice, reflect. Choose the smallest improvement you can repeat for 7 days; let results compound."
DefaultCore == "Return to the body: relax the jaw, soften the shoulders. Ask: What is truly needed now? Let the simple, compassionate response lead your next move."

\* the if/elif chain with purpose tested before stress
select_core_purpose_first(msg) ==
    IF msg = "" THEN SilenceCore
    ELSE IF AnyIn(PurposeWords, lower(msg)) THEN PurposeCore
    ELSE IF AnyIn(StressWords, lower(msg)) THEN StressCore
    ELSE IF AnyIn(RelationshipWords, lower(msg)) THEN RelationshipCore
    ELSE IF AnyIn(CareerWords, lower(msg)) THEN CareerCore
    ELSE DefaultCore

\* lines 44-70: the if/elif chain on the stripped message
select_core(msg) ==
    IF msg = "" THEN SilenceCore
    ELSE IF AnyIn(StressWords, lower(msg)) THEN StressCore
    ELSE IF AnyIn(PurposeWords, lower(msg)) THEN PurposeCore
    ELSE IF AnyIn(RelationshipWords, lower(msg)) THEN RelationshipCore
    ELSE IF AnyIn(CareerWords, lower(msg)) THEN CareerCore
    ELSE DefaultCore

\* generate_guru_reply looking the archetype up as given, not lower-cased
generate_guru_reply_locals_as_given(archetype, user_message) ==
    LET msg == strip(user_message)
        opening == preface_get(archetype)
        core == select_core(msg)
        tailoring == tailoring_get(archetype)
    IN  [opening |-> opening, core |-> core, tailoring |-> tailoring,
         result |-> opening \o " " \o core \o tailoring]

\* the locals of generate_guru_reply at its return, and the value returned
generate_guru_reply_locals(archetype, user_message) ==
    LET msg == strip(user_message)
        a == lower(archetype)
        opening == preface_get(a)
        core == select_core(msg)
        tailoring == tailoring_get(a)
    IN  [opening |-> opening, core |-> core, tailoring |-> tailoring,
         result |-> opening \o " " \o core \o tailoring]

generate_guru_reply(archetype, user_message) ==
    generate_guru_reply_locals(archetype, user_message).result

(***************************************************************************)
(* The document store (database.create_document / get_documents):          *)
(* insert(collection, document) -> generated id, query(collection, filter) *)
(* -> the matching documents in insertion order; either may raise.         *)
(***************************************************************************)
NewId(n) == "id" \o ToString(n)

\* create_document(collection, data): the collection after a successful insert
create_document(coll, data, n) == Append(coll, data @@ [_id |-> NewId(n)])

\* get_documents(collection): every document
get_documents(coll) == coll

\* {"$or": [{"archetype": guru_id}, {"_id": guru_id}]}
MatchesGuru(d, guru_id) ==
    \/ "archetype" \in DOMAIN d /\ d.archetype = guru_id
    \/ "_id" \in DOMAIN d /\ d._id = guru_id

\* get_documents("guru", filter)
get_documents_guru(coll, guru_id) ==
    LET Test(d) == MatchesGuru(d, guru_id) IN SelectSeq(coll, Test)

(***************************************************************************)
(* list_gurus                                                              *)
(***************************************************************************)
\* lines 89-95 (avatars are emoji in the source; named here)
defaults == <<
    [name |-> "Zen Teacher", archetype |-> "zen", avatar |-> "lotus",
     description |-> "Quiet clarity and koan-like reflections."],
    [name |-> "Yogi Guide", archetype |-> "yogi", avatar |-> "lotus position",
     description |-> "Breath, alignment, and daily practice."],
    [name |-> "Astrologer", archetype |-> "astrologer", avatar |-> "sparkles",
     description |-> "Patterns of time and temperament."],
    [name |-> "Monk Mentor", archetype |-> "monk", avatar |-> "folded hands",
     description |-> "Discipline, devotion, and gentle routine."],
    [name |-> "Sufi Friend", archetype |-> "sufi", avatar |-> "dove",
     description |-> "Heart-centered presence and poetry."] >>

\* lines 112-117: _id dropped, exposed as id
normalize_doc(d) ==
    IF "_id" \in DOMAIN d
    THEN [k \in (DOMAIN d \ {"_id"}) \cup {"id"} |->
             IF k = "id" THEN d._id ELSE d[k]]
    ELSE d

normalize(docs) == [k \in 1..Len(docs) |-> normalize_doc(docs[k])]

\* line 99 with the test dropped: seed whatever the store holds
needs_seeding_always(docs) == TRUE

\* line 99: if not docs
needs_seeding(docs) == docs = <<>>

Workers == 1..NumWorkers

IdleCall == [pc |-> "idle", i |-> 0, failed |-> FALSE, emptyAtCall |-> FALSE]

\* lines 112-118 at the end of a call of worker p that holds docs
Return(p, docs, failed, emptyAtCall) ==
    /\ returned' = Append(returned,
            [worker |-> p, gurus |-> normalize(docs), failed |-> failed,
             emptyAtCall |-> emptyAtCall])
    /\ lg' = [lg EXCEPT ![p] = IdleCall]

\* line 98: a call starts with docs = get_documents("guru"); when it raises,
\* line 109 makes docs the defaults
LG_Query(p, fail) ==
    /\ lg[p].pc = "idle"
    /\ hist.listCalls < MaxListCalls
    /\ hist' = [hist EXCEPT !.listCalls = @ + 1, !.anyFail = @ \/ fail]
    /\ IF fail
       THEN Return(p, defaults, TRUE, guru = <<>>)
       ELSE IF needs_seeding(get_documents(guru))
            THEN /\ lg' = [lg EXCEPT ![p] = [pc |-> "seed", i |-> 1,
                              failed |-> FALSE, emptyAtCall |-> guru = <<>>]]
                 /\ UNCHANGED returned
            ELSE Return(p, get_documents(guru), FALSE, guru = <<>>)
    /\ UNCHANGED <<synth, guru, conversation, message, nextId, ask>>

\* lines 101-105: one create_document("guru", g) of the seeding loop; a
\* failure is passed over
LG_Seed(p, fail) ==
    /\ lg[p].pc = "seed"
    /\ IF fail
       THEN UNCHANGED <<guru, nextId>>
       ELSE /\ guru' = create_document(guru, defaults[lg[p].i], nextId)
            /\ nextId' = nextId + 1
    /\ lg' = [lg EXCEPT ![p].i = @ + 1,
                        ![p].failed = @ \/ fail,
                        ![p].pc = IF lg[p].i = Len(defaults) THEN "requery" ELSE "seed"]
    /\ hist' = [hist EXCEPT !.anyFail = @ \/ fail]
    /\ UNCHANGED <<synth, conversation, message, returned, ask>>

\* line 106: docs = get_documents("guru") after seeding; when it raises,
\* line 109 makes docs the defaults
LG_Requery(p, fail) ==
    /\ lg[p].pc = "requery"
    /\ Return(p, IF fail THEN defaults ELSE get_documents(guru),
              lg[p].failed \/ fail, lg[p].emptyAtCall)
    /\ hist' = [hist EXCEPT !.anyFail = @ \/ fail]
    /\ UNCHANGED <<synth, guru, conversation, message, nextId, ask>>


(***************************************************************************)
(* ask_guru                                                                *)
(***************************************************************************)
\* Optional[str]: None, or a string (possibly empty)
None == <<>>
Some(x) == <<x>>

\* Python truthiness of an Optional[str]: None and "" are falsy
Truthy(o) == o # None /\ o[1] # ""

\* lines 132-138
ask_defaults == <<
    [name |-> "Zen Teacher", archetype |-> "zen"],
    [name |-> "Yogi Guide", archetype |-> "yogi"],
    [name |-> "Astrologer", archetype |-> "astrologer"],
    [name |-> "Monk Mentor", archetype |-> "monk"],
    [name |-> "Sufi Friend", archetype |-> "sufi"] >>

\* resolution that falls back to the first default instead of leaving guru None
resolve_guru_fallback(gurus, guru_id, qfail) ==
    LET guru_docs == IF qfail THEN <<>> ELSE get_documents_guru(gurus, guru_id)
        hits == {k \in 1..Len(ask_defaults) : ask_defaults[k].archetype = guru_id}
    IN  IF guru_docs = <<>>
        THEN IF hits = {} THEN Some(ask_defaults[1])
             ELSE Some(ask_defaults[CHOOSE k \in hits : \A j \in hits : k <= j])
        ELSE Some(guru_docs[1])

\* lines 123-143: the stored match (a failed query counts as no match), else
\* the default with that archetype, else None
resolve_guru(gurus, guru_id, qfail) ==
    LET guru_docs == IF qfail THEN <<>> ELSE get_documents_guru(gurus, guru_id)
        hits == {k \in 1..Len(ask_defaults) : ask_defaults[k].archetype = guru_id}
    IN  IF guru_docs = <<>>
        THEN IF hits = {} THEN None
             ELSE Some(ask_defaults[CHOOSE k \in hits : \A j \in hits : k <= j])
        ELSE Some(guru_docs[1])

\* line 148: guru.get("archetype", "zen")
archetype_of(g) == IF "archetype" \in DOMAIN g THEN g.archetype ELSE "zen"

\* line 154: if not conv_id
creates_conversation(conv_id) == ~Truthy(conv_id)

\* the except branch without the sentinel
except_conv_id_kept(conv_id) == conv_id

\* the except branch substituting the sentinel whatever conv_id holds
except_conv_id_always(conv_id) == Some("temp-session")

\* lines 174-177: the except branch
except_conv_id(conv_id) == IF ~Truthy(conv_id) THEN Some("temp-session") ELSE conv_id

\* lines 161-166
user_message_doc(conv_id, payload) ==
    [conversation_id |-> conv_id, role |-> "user",
     content |-> payload.user_message, guru_id |-> payload.guru_id]

\* lines 168-173 holding the user's text
guru_message_doc_echo(conv_id, payload, reply) ==
    [conversation_id |-> conv_id, role |-> "guru",
     content |-> payload.user_message, guru_id |-> payload.guru_id]

\* lines 168-173
guru_message_doc(conv_id, payload, reply) ==
    [conversation_id |-> conv_id, role |-> "guru",
     content |-> reply, guru_id |-> payload.guru_id]

\* lines 155-159
conversation_doc(payload) ==
    [guru_id |-> payload.guru_id, user_name |-> payload.user_name, title |-> None]

\* the string an Optional[str] holds
Val(o) == o[1]

\* str(conv_id) of line 179
str(conv_id) == IF conv_id = None THEN "None" ELSE Val(conv_id)

\* The store operations a call reaches, given which of them raise: the query
\* always; the conversation insert when the guru was resolved and no usable
\* conversation_id came with the request; each message insert when nothing
\* before it in the try block raised.
Reached(payload, f) ==
    LET resolved == resolve_guru(guru, payload.guru_id, f.query) # None
        create == creates_conversation(payload.conversation_id)
    IN  [query |-> TRUE,
         conversation |-> resolved /\ create,
         user |-> resolved /\ (~create \/ ~f.conversation),
         guru |-> resolved /\ (~create \/ ~f.conversation) /\ ~f.user]

\* One call of ask_guru with the given payload; f says which of the store
\* operations it reaches raise.
ask_guru(payload, f) ==
    /\ hist.askCalls < MaxAskCalls
    /\ \A op \in DOMAIN f : f[op] => Reached(payload, f)[op]
    /\ LET g == resolve_guru(guru, payload.guru_id, f.query) IN
       IF g = None
       THEN \* line 146: HTTPException(404)
            /\ ask' = [n |-> hist.askCalls + 1, payload |-> payload, f |-> f,
                       outcome |-> "not_found", conversation_id |-> "",
                       reply |-> "", convBefore |-> Len(conversation),
                       msgBefore |-> Len(message)]
            /\ hist' = [hist EXCEPT !.askCalls = @ + 1]
            /\ UNCHANGED <<conversation, message, nextId>>
       ELSE LET reply == generate_guru_reply(archetype_of(g[1]), payload.user_message)
                create == creates_conversation(payload.conversation_id)
                createOk == create /\ ~f.conversation
                \* conv_id after lines 154-159
                conv_id == IF createOk THEN Some(NewId(nextId))
                           ELSE payload.conversation_id
                n1 == IF createOk THEN nextId + 1 ELSE nextId
                userOk == (~create \/ createOk) /\ ~f.user
                n2 == IF userOk THEN n1 + 1 ELSE n1
                guruOk == userOk /\ ~f.guru
                n3 == IF guruOk THEN n2 + 1 ELSE n2
                m1 == IF userOk
                      THEN create_document(message,
                               user_message_doc(Val(conv_id), payload), n1)
                      ELSE message
                m2 == IF guruOk
                      THEN create_document(m1,
                               guru_message_doc(Val(conv_id), payload, reply), n2)
                      ELSE m1
                final == IF guruOk THEN conv_id ELSE except_conv_id(conv_id)
            IN  /\ conversation' = IF createOk
                                   THEN create_document(conversation,
                                            conversation_doc(payload), nextId)
                                   ELSE conversation
                /\ message' = m2
                /\ nextId' = n3
                /\ ask' = [n |-> hist.askCalls + 1, payload |-> payload, f |-> f,
                           outcome |-> "ok", conversation_id |-> str(final),
                           reply |-> reply, convBefore |-> Len(conversation),
                           msgBefore |-> Len(message)]
                /\ hist' = [hist EXCEPT !.askCalls = @ + 1,
                                           !.issued = @ \cup {str(final)}]
    /\ UNCHANGED <<synth, guru, lg, returned>>

(***************************************************************************)
(* Inputs and initial states                                               *)
(***************************************************************************)
\* what the guru collection may hold when the service starts: nothing, two
\* personas of its own (one without an archetype), or the seeded defaults
StoredCustom == <<
    [_id |-> "g1", name |-> "Stoic Sage", archetype |-> "stoic",
     avatar |-> "column", description |-> "Calm under pressure."],
    [_id |-> "g2", name |-> "Nameless"] >>

StoredSeeded == [k \in 1..Len(defaults) |->
                    defaults[k] @@ [_id |-> "s" \o ToString(k)]]

InitialGurus == {<<>>, StoredCustom, StoredSeeded}

GuruIds == {"zen", "g2", "unknown-persona-xyz"}
UserMessages == {"", "I'm stressed about work"}
UserNames == {None}
StoreFailures == [query : BOOLEAN, conversation : BOOLEAN, user : BOOLEAN, guru : BOOLEAN]

\* conversation ids a client can supply: none, the empty string, or one an
\* earlier call returned
ConversationIds == {None, Some("")} \cup {Some(c) : c \in hist.issued}

Payloads == [conversation_id : ConversationIds, guru_id : GuruIds,
             user_message : UserMessages, user_name : UserNames]

NoSynth == [pc |-> "idle", archetype |-> "", user_message |-> "",
            opening |-> "", core |-> "", tailoring |-> "", result |-> ""]

NoAsk == [n |-> 0]

StoreInit ==
    /\ guru \in InitialGurus
    /\ conversation = <<>>
    /\ message = <<>>
    /\ nextId = 1
    /\ lg = [p \in Workers |-> IdleCall]
    /\ returned = <<>>
    /\ ask = NoAsk
    /\ hist = [listCalls |-> 0, askCalls |-> 0, anyFail |-> FALSE,
               startedEmpty |-> guru = <<>>, issued |-> {}]

Init ==
    /\ synth = NoSynth
    /\ StoreInit

\* ask_guru requests served one after another, the store failing at will
Next == \E payload \in Payloads, f \in StoreFailures : ask_guru(payload, f)

Spec == Init /\ [][Next]_vars

\* list_gurus requests served one after another, the store failing at will
Sequential(p) == \A q \in Workers \ {p} : lg[q].pc = "idle"

NextList ==
    \E p \in Workers, fail \in BOOLEAN :
        /\ Sequential(p)
        /\ \/ LG_Query(p, fail)
           \/ LG_Seed(p, fail)
           \/ LG_Requery(p, fail)

SpecList == Init /\ [][NextList]_vars

\* list_gurus requests served concurrently by the workers, the store healthy
NextConc ==
    \E p \in Workers :
        \/ LG_Query(p, FALSE)
        \/ LG_Seed(p, FALSE)
        \/ LG_Requery(p, FALSE)

SpecConc == Init /\ [][NextConc]_vars

(***************************************************************************)
(* generate_guru_reply on its own: one call per behaviour                  *)
(***************************************************************************)
Fragments == {" ", "net", "STRESS", "Anxious", "anxiety", "overwhelmed",
              "Purpose", "meaning", "direction", "LOVE", "relationship",
              "breakup", "Heart", "career", "Job", "work"}

RECURSIVE MessagesUpTo(_)
MessagesUpTo(n) ==
    IF n = 0 THEN {""}
    ELSE LET shorter == MessagesUpTo(n - 1)
         IN  shorter \cup {m \o x : m \in shorter, x \in Fragments}

Archetypes == KnownArchetypes \cup {"ZEN", "Sufi", "stoic", ""}

InitSynth ==
    /\ \E a \in Archetypes, m \in MessagesUpTo(MaxFrags) :
           synth = [NoSynth EXCEPT !.pc = "call", !.archetype = a, !.user_message = m]
    /\ StoreInit
    /\ guru = <<>>

Synthesize ==
    /\ synth.pc = "call"
    /\ LET r == generate_guru_reply_locals(synth.archetype, synth.user_message)
       IN  synth' = [synth EXCEPT !.pc = "return", !.opening = r.opening,
                                  !.core = r.core, !.tailoring = r.tailoring,
                                  !.result = r.result]
    /\ UNCHANGED <<guru, conversation, message, nextId, lg, returned, ask, hist>>

NextSynth == Synthesize

SpecSynth == InitSynth /\ [][NextSynth]_vars


(***************************************************************************)
(* Properties of ask_guru (checked under Spec)                             *)
(***************************************************************************)
Called == ask.n > 0

\* the stored personas whose archetype or identifier is guru_id
StoredMatches(guru_id) ==
    {k \in DOMAIN guru :
        \/ "archetype" \in DOMAIN guru[k] /\ guru[k].archetype = guru_id
        \/ guru[k]._id = guru_id}

FirstStored(guru_id) ==
    guru[CHOOSE k \in StoredMatches(guru_id) : \A j \in StoredMatches(guru_id) : k <= j]

\* the last call's guru_id resolves: a stored persona matched by a query that
\* went through, or one of the five default archetypes
Resolves ==
    \/ ~ask.f.query /\ StoredMatches(ask.payload.guru_id) # {}
    \/ ask.payload.guru_id \in KnownArchetypes

ResolvedArchetype ==
    IF ~ask.f.query /\ StoredMatches(ask.payload.guru_id) # {}
    THEN LET g == FirstStored(ask.payload.guru_id)
         IN  IF "archetype" \in DOMAIN g THEN g.archetype ELSE "zen"
    ELSE ask.payload.guru_id

\* the messages the last call added to the store
NewMessages == SubSeq(message, ask.msgBefore + 1, Len(message))

IsMessage(m, conv_id, role, content) ==
    /\ m.conversation_id = conv_id
    /\ m.role = role
    /\ m.content = content
    /\ m.guru_id = ask.payload.guru_id

\* C1: whenever the guru_id resolves to a persona, the call returns the
\* synthesized reply and a non-null conversation_id whatever store operations
\* failed, and the id is "temp-session" when none was supplied and the
\* conversation insert failed.
C1_ReplyUnderEveryStoreFailure ==
    (Called /\ Resolves) =>
        /\ ask.outcome = "ok"
        /\ ask.reply = generate_guru_reply(ResolvedArchetype, ask.payload.user_message)
        /\ ask.conversation_id \notin {"", "None"}
        /\ (ask.payload.conversation_id = None /\ ask.f.conversation)
               => ask.conversation_id = "temp-session"

C1_Witness ==
    /\ Called
    /\ ask.payload.guru_id = "zen"
    /\ ask.payload.conversation_id = None
    /\ ask.f.query /\ ask.f.conversation
    /\ ask.outcome = "ok"
    /\ ask.conversation_id = "temp-session"
    /\ ask.reply # ""

\* C2: a call whose guru_id matches no stored persona and no default archetype
\* signals not-found, produces no reply and leaves every collection as it was.
C2_NotFoundWritesNothing ==
    [][(ask'.n # ask.n
          /\ StoredMatches(ask'.payload.guru_id) = {}
          /\ ask'.payload.guru_id \notin KnownArchetypes)
        => /\ ask'.outcome = "not_found"
           /\ ask'.reply = ""
           /\ UNCHANGED <<guru, conversation, message, nextId>>]_vars

C2_Witness ==
    /\ Called
    /\ ask.payload.guru_id = "unknown-persona-xyz"
    /\ ask.payload.conversation_id \notin {None, Some("")}
    /\ ask.outcome = "not_found"
    /\ Len(message) = 2
    /\ Len(conversation) = 1

\* C3 as stated: every call that does not signal not-found leaves exactly two
\* new messages for the returned conversation_id, the user's text and then the
\* reply.
C3_AlwaysTwoMessages ==
    (Called /\ ask.outcome = "ok") =>
        /\ Len(NewMessages) = 2
        /\ IsMessage(NewMessages[1], ask.conversation_id, "user", ask.payload.user_message)
        /\ IsMessage(NewMessages[2], ask.conversation_id, "guru", ask.reply)

\* C3 amended: with no persistence step failing the call leaves exactly the
\* two messages, user then guru, for the returned conversation_id; a failed
\* conversation insert or user-message insert leaves no message (the second
\* possibly a new conversation record without messages) and a failed
\* guru-message insert leaves the user message alone.
C3_TwoMessagesUnlessAStepFails ==
    (Called /\ ask.outcome = "ok") =>
        /\ (~ask.f.conversation /\ ~ask.f.user /\ ~ask.f.guru) =>
              /\ Len(NewMessages) = 2
              /\ IsMessage(NewMessages[1], ask.conversation_id, "user",
                           ask.payload.user_message)
              /\ IsMessage(NewMessages[2], ask.conversation_id, "guru", ask.reply)
        /\ ask.f.conversation =>
              Len(NewMessages) = 0 /\ Len(conversation) = ask.convBefore
        /\ ask.f.user => Len(NewMessages) = 0
        /\ ask.f.guru =>
              /\ Len(NewMessages) = 1
              /\ IsMessage(NewMessages[1], ask.conversation_id, "user",
                           ask.payload.user_message)

C3_Witness ==
    /\ Called
    /\ ask.outcome = "ok"
    /\ ask.f.guru
    /\ ask.payload.conversation_id = None
    /\ Len(conversation) = ask.convBefore + 1
    /\ Len(NewMessages) = 1

C10_MessagesHaveAConversation ==
    \A k \in DOMAIN message :
        \E j \in DOMAIN conversation :
            conversation[j]._id = message[k].conversation_id


(***************************************************************************)
(* Properties of list_gurus (checked under SpecList and SpecConc)          *)
(***************************************************************************)
NoDuplicateArchetype(docs) ==
    \A i, j \in DOMAIN docs :
        ("archetype" \in DOMAIN docs[i] /\ "archetype" \in DOMAIN docs[j]
            /\ docs[i].archetype = docs[j].archetype) => i = j

\* a returned persona is one of the defaults, with the id the store gave it
IsDefaultPersona(d, k) ==
    /\ d.name = defaults[k].name
    /\ d.archetype = defaults[k].archetype
    /\ d.avatar = defaults[k].avatar
    /\ d.description = defaults[k].description

FiveDefaults(gurus) ==
    /\ Len(gurus) = 5
    /\ \A k \in 1..5 : IsDefaultPersona(gurus[k], k)

\* C5: with the store healthy and empty at the start, every sequential
\* list_gurus call returns the five defaults, all calls return the same five,
\* and the store never holds two personas of one archetype (seeding happens
\* once).
C5_SequentialSeedingIdempotent ==
    (hist.startedEmpty /\ ~hist.anyFail) =>
        /\ \A k \in DOMAIN returned :
              /\ FiveDefaults(returned[k].gurus)
              /\ returned[k].gurus = returned[1].gurus
        /\ NoDuplicateArchetype(guru)
        /\ Len(guru) <= 5

C5_Witness ==
    /\ hist.startedEmpty /\ ~hist.anyFail
    /\ Len(returned) >= 2
    /\ returned[1].emptyAtCall
    /\ ~returned[2].emptyAtCall
    /\ Len(guru) = 5

\* C6: a list_gurus call during which a store operation failed returns the
\* five built-in defaults, and a call on a store that held no persona never
\* returns an empty or partial list.
C6_FailureFallsBackToDefaults ==
    \A k \in DOMAIN returned :
        /\ returned[k].failed => returned[k].gurus = defaults
        /\ returned[k].emptyAtCall => Len(returned[k].gurus) = 5

\* C9: with list_gurus calls running concurrently on an initially empty,
\* healthy store, once all calls are over the store holds exactly five
\* personas, one per default archetype, and no call has returned a list with
\* a duplicated archetype.
C9_ConcurrentSeedingIdempotent ==
    (hist.startedEmpty /\ ~hist.anyFail) =>
        /\ \A k \in DOMAIN returned : NoDuplicateArchetype(returned[k].gurus)
        /\ (hist.listCalls > 0 /\ \A p \in Workers : lg[p].pc = "idle") =>
              /\ Len(guru) = 5
              /\ NoDuplicateArchetype(guru)

(***************************************************************************)
(* Properties of generate_guru_reply (checked under SpecSynth)             *)
(***************************************************************************)
Blank(m) == \A i \in 1..Len(m) : CharAt(m, i) \in Whitespace

\* w occurs in m, letter case aside
OccursIn(w, m) ==
    \E i \in 1..(Len(m) - Len(w) + 1) :
        \A j \in 1..Len(w) : LowerChar(CharAt(m, i + j - 1)) = CharAt(w, j)

\* the buckets in priority order
Buckets == <<
    [words |-> StressWords, core |-> StressCore],
    [words |-> PurposeWords, core |-> PurposeCore],
    [words |-> RelationshipWords, core |-> RelationshipCore],
    [words |-> CareerWords, core |-> CareerCore] >>

MatchingBuckets(m) ==
    {b \in DOMAIN Buckets :
        \E k \in DOMAIN Buckets[b].words : OccursIn(Buckets[b].words[k], m)}

\* the reference selection: silence for a blank message, else the core of the
\* matching bucket of highest priority, else the default
ReferenceCore(m) ==
    LET matching == MatchingBuckets(m)
    IN  IF Blank(m) THEN SilenceCore
        ELSE IF matching = {} THEN DefaultCore
        ELSE Buckets[CHOOSE b \in matching : \A c \in matching : b <= c].core

\* C7: the core reply depends on the message alone and is the reference
\* selection, for every archetype.
C7_CoreIsReferenceSelection ==
    synth.pc = "return" => synth.core = ReferenceCore(synth.user_message)

C7_Witness ==
    /\ synth.pc = "return"
    /\ synth.user_message = "workSTRESS"
    /\ synth.archetype = "stoic"
    /\ synth.core = StressCore

OpeningOf == [zen |-> "Zen Reflection:", yogi |-> "Yogic Guidance:",
              astrologer |-> "Astrological Insight:", monk |-> "Monastic Wisdom:",
              sufi |-> "Sufi Whisper:"]

TailoringOf ==
    [zen |-> " Embrace simplicity--wash the bowl, one mindful action at a time.",
     yogi |-> " Align breath and intention; the posture of your day shapes the posture of your mind.",
     astrologer |-> " Trust timing; not every seed sprouts in the same season.",
     monk |-> " Choose quiet courage. Consistency is a humble miracle.",
     sufi |-> " Let love polish the heart; dance gently with what is."]

\* the reply for an archetype that is looked up in the tables under key
Wrapped(key, m) ==
    IF key \in KnownArchetypes
    THEN OpeningOf[key] \o " " \o ReferenceCore(m) \o TailoringOf[key]
    ELSE "Guidance:" \o " " \o ReferenceCore(m)

\* C8 as stated: the reply is opening, space, core, tailoring, with the table
\* entries of the archetype when it is one of the five known strings and the
\* generic opening and empty tailoring for any other string.
C8_WrappedByExactArchetype ==
    synth.pc = "return" => synth.result = Wrapped(synth.archetype, synth.user_message)

\* C8 amended: the archetype is matched letter case aside: a string whose
\* lower-cased form is one of the five known archetypes gets that archetype's
\* entries, any other string the generic opening and the empty tailoring.
C8_WrappedByLowerCasedArchetype ==
    synth.pc = "return" =>
        /\ synth.result = Wrapped(lower(synth.archetype), synth.user_message)
        /\ synth.result = synth.opening \o " " \o synth.core \o synth.tailoring

C8_Witness ==
    /\ synth.pc = "return"
    /\ synth.archetype = "Sufi"
    /\ synth.user_message = ""
    /\ synth.opening = "Sufi Whisper:"
    /\ synth.core = SilenceCore

=============================================================================
